---- MODULE Spec2Model ----
(***************************************************************************)
(* Model of the ACP bridge of src/src/acp_agent_main.py: the coroutine     *)
(* websocket_handler, the StarletteWebSocketAdapter it reads and writes    *)
(* through, the global agents registry, and the two collaborators the      *)
(* coroutine awaits: the Starlette websocket (the peer) and the            *)
(* ACPDeepAgentBedrock instance created for the connection.                *)
(*                                                                         *)
(* Python's None is modelled as 0 for ids and session ids and as the       *)
(* string "None" for an absent method.                                     *)
(***************************************************************************)
EXTENDS Integers, Sequences, FiniteSets, TLC

\* ---------------------------------------------------------------- bounds
\* Frames the peer sends on one connection (its own cancel of a running
\* prompt, ClientCancel, comes on top).
MaxFrames == 3
\* Frames the peer may have sent ahead of the bridge reading them.
MaxInbox == 2

\* ------------------------------------------------------- program constants
\* "code": -32603 of the error response.
INTERNAL_ERROR == -32603
\* websocket.close(code=1011, ...) of the two early exits.
CLOSE_1011 == 1011
\* Starlette's default code of websocket.close().
CLOSE_DEFAULT == 1000

Conns == {1, 2}
\* The connection the single-connection specifications run.
MainConns == {1}

\* The branches of the method routing.
AgentMethods == {"initialize", "new_session", "prompt", "set_session_mode", "cancel"}

VARIABLES
    DEEPAGENTS_AVAILABLE, \* module flag set by the first import block
    LANGCHAIN_AVAILABLE,  \* module flag set by the second import block
    agents,               \* the global registry: the conn_ids that have an entry
    pc,               \* where websocket_handler of each connection stands
    closed,           \* ws_adapter._closed
    session_id,       \* the local session_id of websocket_handler
    cur,              \* the locals method, params, msg_id of the message in hand
    handler,          \* the agent coroutine the handler is awaiting
    cancelled,        \* agent._cancelled
    nsess,            \* sessions the agent has created
    inbox,            \* text frames the peer has sent and receive_text has not returned
    recv,             \* the message send_text delivered to the peer last
    nrecv,            \* how many messages send_text has delivered to the peer
    peerGone,         \* the peer has disconnected
    wsClose,          \* the codes websocket.close() was called with
    nsent,            \* frames the peer has sent (it numbers its ids with it)
    awaiting          \* the call the peer sent last and has had no message since

vars == <<DEEPAGENTS_AVAILABLE, LANGCHAIN_AVAILABLE, agents, pc, closed, session_id,
          cur, handler, cancelled, nsess, inbox, recv, nrecv, peerGone, wsClose,
          nsent, awaiting>>

\* -------------------------------------------------------------- messages
\* What "" stands as among the session ids: a value params can give for
\* session_id that Python takes for false.  (None is 0.)
EmptyString == -1

\* params of an inbound message: a dict (ok) carrying session_id (0: the
\* key is absent) and, for prompt, the list under "prompt" ("text": text
\* blocks only; "malformed": it holds an entry that is neither a string nor
\* a dict of type "text"), or a JSON value that is not an object.
Params(sid) == [ok |-> TRUE, session_id |-> sid, prompt |-> "text"]
BadParams == [ok |-> FALSE, session_id |-> 0, prompt |-> "text"]
BadBlocks == [ok |-> TRUE, session_id |-> 0, prompt |-> "malformed"]

\* A text frame: unparsable text, a JSON array, or a JSON object with
\* method ("None": absent), id (0: absent) and params.
Garbage == [kind |-> "garbage", method |-> "None", id |-> 0, params |-> Params(0)]
Array == [kind |-> "array", method |-> "None", id |-> 0, params |-> Params(0)]
Object(m, i, p) == [kind |-> "object", method |-> m, id |-> i, params |-> p]

\* The params the peer sends with each method.
ParamsOf(m) ==
    CASE m = "prompt" -> {Params(0), Params(1), Params(EmptyString), BadParams, BadBlocks}
      [] OTHER -> {Params(0)}

\* A method the peer sends as a call (with an id) only: cancel it also
\* sends as a notification.
IdsOf(m, k) == IF m = "cancel" THEN {0, k} ELSE {k}

\* The methods the peer sends: the five routed ones, one unknown name, and
\* no method at all (a response message).
ClientMethods == AgentMethods \cup {"bogus", "None"}

NoMsg == Object("None", 0, Params(0))
NoHandler == [method |-> "None", session_id |-> 0, waits |-> FALSE]
NoCall == [id |-> 0, quiet |-> FALSE]
\* Nothing received yet.
NoReply == [jsonrpc |-> "2.0", id |-> 0]

\* What an agent coroutine returns: the response object of its method.
ResultOf(h, n, ser) ==
    [type |-> h.method, session_id |-> IF h.method = "new_session" THEN n ELSE 0,
     serializable |-> ser]

\* What new_session returns when it returns no NewSessionResponse.
OtherResult(ser) == [type |-> "dict", session_id |-> 0, serializable |-> ser]

\* isinstance(result, NewSessionResponse)
isinstance_NewSessionResponse(result) == result.type = "new_session"

\* json.dumps(message) raises on a result that holds a value JSON has no form for.
json_dumps_ok(message) ==
    "result" \in DOMAIN message => message.result.serializable


\* ------------------------------------------- StarletteWebSocketAdapter
\* What read_message returns besides a message.
None == [kind |-> "None", method |-> "None", id |-> 0, params |-> Params(0)]

\* CanReceive, had receive_text gone on waiting for a frame after the peer
\* disconnected.
CanReceiveNoDisconnect(c) == closed[c] \/ inbox[c] # <<>>

\* receive_text has something to return or to raise: a frame, or the
\* disconnect of the peer.  Otherwise the coroutine stays suspended in it.
CanReceive(c) == closed[c] \/ inbox[c] # <<>> \/ peerGone[c]

\* read_message, had it not tested _closed before receive_text.
read_message_unguarded(c) ==
    IF inbox[c] = <<>>
    THEN [message |-> None, closed |-> TRUE, inbox |-> inbox[c]]
    ELSE IF Head(inbox[c]).kind = "garbage"
    THEN [message |-> None, closed |-> TRUE, inbox |-> Tail(inbox[c])]
    ELSE [message |-> Head(inbox[c]), closed |-> closed[c], inbox |-> Tail(inbox[c])]

\* read_message: [message, closed, inbox] after the call.
read_message(c) ==
    IF closed[c]
    THEN [message |-> None, closed |-> TRUE, inbox |-> inbox[c]]
    ELSE IF inbox[c] = <<>>
    THEN \* receive_text raises: the peer is gone
         [message |-> None, closed |-> TRUE, inbox |-> inbox[c]]
    ELSE IF Head(inbox[c]).kind = "garbage"
    THEN \* json.loads raises
         [message |-> None, closed |-> TRUE, inbox |-> Tail(inbox[c])]
    ELSE [message |-> Head(inbox[c]), closed |-> FALSE, inbox |-> Tail(inbox[c])]

\* write_message, had its except clause logged the error and left _closed
\* as it was.
write_message_keeps_open(c, message) ==
    IF closed[c]
    THEN [closed |-> TRUE, sent |-> <<>>]
    ELSE IF ~json_dumps_ok(message) \/ peerGone[c]
    THEN [closed |-> FALSE, sent |-> <<>>]
    ELSE [closed |-> FALSE, sent |-> <<message>>]

\* write_message: [closed, sent] after the call, sent the messages handed
\* to the peer.  json.dumps raises on a result it cannot serialize,
\* send_text raises once the peer is gone.
write_message(c, message) ==
    IF closed[c]
    THEN [closed |-> TRUE, sent |-> <<>>]
    ELSE IF ~json_dumps_ok(message) \/ peerGone[c]
    THEN [closed |-> TRUE, sent |-> <<>>]
    ELSE [closed |-> FALSE, sent |-> <<message>>]

\* close, had it not tested _closed before websocket.close().
close_unguarded(c) ==
    [closed |-> TRUE, wsClose |-> Append(wsClose[c], CLOSE_DEFAULT)]

\* close: [closed, wsClose] after the call.
close(c) ==
    IF ~closed[c]
    THEN [closed |-> TRUE, wsClose |-> Append(wsClose[c], CLOSE_DEFAULT)]
    ELSE [closed |-> TRUE, wsClose |-> wsClose[c]]

\* ------------------------------------------------------ websocket_handler
\* response, had it left the id of the call out.
response_without_id(result, msg_id) ==
    [jsonrpc |-> "2.0", result |-> result, id |-> 0]

\* The response dict of the success path.
response(result, msg_id) ==
    [jsonrpc |-> "2.0", result |-> result, id |-> msg_id]

\* error_response, had it answered with a null id as an error that cannot
\* be attributed to a call does.
error_response_null_id(e, method, msg_id) ==
    [jsonrpc |-> "2.0",
     error |-> [code |-> INTERNAL_ERROR, message |-> e, data |-> [method |-> method]],
     id |-> 0]

\* The error_response dict of the inner except; e is str(e).
error_response(e, method, msg_id) ==
    [jsonrpc |-> "2.0",
     error |-> [code |-> INTERNAL_ERROR, message |-> e, data |-> [method |-> method]],
     id |-> msg_id]

\* SessionArg, had the operands of `or` been written the other way round:
\* session_id or params.get("session_id")
SessionArgDefaultFirst(params, sid) ==
    IF sid # 0 THEN sid ELSE params.session_id

\* params.get("session_id") or session_id
SessionArg(params, sid) ==
    IF params.session_id \notin {0, EmptyString} THEN params.session_id ELSE sid

\* The module-level InMemorySaver, and the checkpointer create_acp_agent
\* hands the agent of connection c: that one object, for every connection.
checkpointer == "InMemorySaver"
CheckpointerOf(c) == checkpointer

\* create_acp_agent returns None when a dependency is missing.
create_acp_agent == DEEPAGENTS_AVAILABLE /\ LANGCHAIN_AVAILABLE

\* The connection is accepted and the handler has not returned.
Open(c) == pc[c] \in {"loop", "handling", "cleanup"}

\* The handler hands message m to write_message.
Send(c, m) ==
    LET w == write_message(c, m) IN
    /\ closed' = [closed EXCEPT ![c] = w.closed]
    /\ recv' = [recv EXCEPT ![c] = IF w.sent # <<>> THEN w.sent[Len(w.sent)] ELSE @]
    /\ nrecv' = [nrecv EXCEPT ![c] = @ + Len(w.sent)]
    /\ awaiting' = [awaiting EXCEPT ![c] = IF w.sent # <<>> THEN NoCall ELSE @]

\* Accept, had the entry been written to the registry before the test of
\* the agent that create_acp_agent returned.
AcceptRegistersFirst(c) ==
    /\ pc[c] = "start"
    /\ IF ~DEEPAGENTS_AVAILABLE
       THEN /\ wsClose' = [wsClose EXCEPT ![c] = Append(@, CLOSE_1011)]
            /\ pc' = [pc EXCEPT ![c] = "returned"]
            /\ UNCHANGED agents
       ELSE IF ~create_acp_agent
       THEN /\ agents' = agents \cup {c}
            /\ wsClose' = [wsClose EXCEPT ![c] = Append(@, CLOSE_1011)]
            /\ pc' = [pc EXCEPT ![c] = "returned"]
       ELSE \/ /\ agents' = agents \cup {c}
               /\ pc' = [pc EXCEPT ![c] = "loop"]
               /\ UNCHANGED wsClose
            \/ /\ pc' = [pc EXCEPT ![c] = "raised"]
               /\ UNCHANGED <<agents, wsClose>>
    /\ UNCHANGED <<DEEPAGENTS_AVAILABLE, LANGCHAIN_AVAILABLE, closed, session_id, cur,
                   handler, cancelled, nsess, inbox, recv, nrecv, peerGone,
                   nsent, awaiting>>

\* From the entry of websocket_handler to the message loop, or to one of
\* the two early returns, or out of the coroutine with the exception that
\* create_acp_agent raised while it built the model or the agent.
Accept(c) ==
    /\ pc[c] = "start"
    /\ IF ~DEEPAGENTS_AVAILABLE \/ ~create_acp_agent
       THEN /\ wsClose' = [wsClose EXCEPT ![c] = Append(@, CLOSE_1011)]
            /\ pc' = [pc EXCEPT ![c] = "returned"]
            /\ UNCHANGED agents
       ELSE \/ /\ agents' = agents \cup {c}
               /\ pc' = [pc EXCEPT ![c] = "loop"]
               /\ UNCHANGED wsClose
            \/ /\ pc' = [pc EXCEPT ![c] = "raised"]
               /\ UNCHANGED <<agents, wsClose>>
    /\ UNCHANGED <<DEEPAGENTS_AVAILABLE, LANGCHAIN_AVAILABLE, closed, session_id, cur,
                   handler, cancelled, nsess, inbox, recv, nrecv, peerGone,
                   nsent, awaiting>>

\* The routing of one message, up to the await of the agent coroutine or,
\* where the inner try raises before it, through the inner except.  A
\* prompt is either one that returns by itself or one that returns only
\* once it observes cancellation (waits); the agent's prompt clears its
\* cancellation flag when it starts, so that a cancel counts for the prompt
\* it arrives during.
Dispatch(c, message) ==
    /\ cur' = [cur EXCEPT ![c] = message]
    /\ IF message.method \in AgentMethods /\ message.params.ok
       THEN /\ pc' = [pc EXCEPT ![c] = "handling"]
            /\ \E w \in (IF message.method = "prompt" THEN BOOLEAN ELSE {FALSE}) :
                 handler' = [handler EXCEPT ![c] =
                     [method |-> message.method,
                      session_id |-> IF message.method \in {"initialize", "new_session"}
                                     THEN 0
                                     ELSE SessionArg(message.params, session_id[c]),
                      waits |-> w]]
            /\ cancelled' = [cancelled EXCEPT ![c] =
                                IF message.method = "prompt" THEN FALSE ELSE @]
            /\ UNCHANGED <<closed, recv, nrecv, awaiting>>
       ELSE /\ Send(c, error_response(
                        IF message.method \in AgentMethods
                        THEN "AttributeError" ELSE "Unknown method",
                        message.method, message.id))
            /\ pc' = [pc EXCEPT ![c] = "loop"]
            /\ UNCHANGED <<handler, cancelled>>

\* ReadMessage, had the loop started the routing of each message as a task
\* of its own and gone on reading while an agent coroutine runs.
ReadMessageConcurrent(c) ==
    /\ pc[c] \in {"loop", "handling"}
    /\ CanReceive(c)
    /\ LET r == read_message(c) IN
       /\ inbox' = [inbox EXCEPT ![c] = r.inbox]
       /\ IF r.message = None
          THEN \* break
               /\ closed' = [closed EXCEPT ![c] = r.closed]
               /\ pc' = [pc EXCEPT ![c] = "cleanup"]
               /\ UNCHANGED <<cur, handler, cancelled, recv, nrecv, awaiting>>
          ELSE IF r.message.kind = "array"
          THEN \* message.get raises outside the inner try: the outer except
               /\ pc' = [pc EXCEPT ![c] = "cleanup"]
               /\ UNCHANGED <<closed, cur, handler, cancelled, recv, nrecv, awaiting>>
          ELSE Dispatch(c, r.message)
    /\ UNCHANGED <<DEEPAGENTS_AVAILABLE, LANGCHAIN_AVAILABLE, agents, session_id, nsess,
                   peerGone, wsClose, nsent>>

\* One turn of the message loop: read_message, then the routing.
ReadMessage(c) ==
    /\ pc[c] = "loop"
    /\ CanReceive(c)
    /\ LET r == read_message(c) IN
       /\ inbox' = [inbox EXCEPT ![c] = r.inbox]
       /\ IF r.message = None
          THEN \* break
               /\ closed' = [closed EXCEPT ![c] = r.closed]
               /\ pc' = [pc EXCEPT ![c] = "cleanup"]
               /\ UNCHANGED <<cur, handler, cancelled, recv, nrecv, awaiting>>
          ELSE IF r.message.kind = "array"
          THEN \* message.get raises outside the inner try: the outer except
               /\ pc' = [pc EXCEPT ![c] = "cleanup"]
               /\ UNCHANGED <<closed, cur, handler, cancelled, recv, nrecv, awaiting>>
          ELSE Dispatch(c, r.message)
    /\ UNCHANGED <<DEEPAGENTS_AVAILABLE, LANGCHAIN_AVAILABLE, agents, session_id, nsess,
                   peerGone, wsClose, nsent>>

\* The awaited agent coroutine may finish: a prompt that waits for
\* cancellation finishes only once the agent's flag is set.
CanFinish(c) == pc[c] = "handling" /\ (handler[c].waits => cancelled[c])

\* HandlerReturns, had session_id been assigned from the result of
\* new_session without the isinstance test.
HandlerReturnsUnchecked(c) ==
    /\ CanFinish(c)
    /\ \E ser \in (IF handler[c].method = "cancel" THEN {TRUE} ELSE BOOLEAN) :
       \E typed \in (IF handler[c].method = "new_session" THEN BOOLEAN ELSE {TRUE}) :
         LET n == nsess[c] + 1
             result == IF typed THEN ResultOf(handler[c], n, ser) ELSE OtherResult(ser)
         IN /\ Send(c, response(result, cur[c].id))
            /\ pc' = [pc EXCEPT ![c] = "loop"]
            /\ IF handler[c].method = "new_session"
               THEN /\ nsess' = [nsess EXCEPT ![c] = IF typed THEN n ELSE @]
                    /\ session_id' = [session_id EXCEPT ![c] = result.session_id]
               ELSE UNCHANGED <<nsess, session_id>>
            /\ cancelled' = [cancelled EXCEPT ![c] =
                                IF handler[c].method = "cancel" THEN TRUE ELSE @]
    /\ handler' = [handler EXCEPT ![c] = NoHandler]
    /\ UNCHANGED <<DEEPAGENTS_AVAILABLE, LANGCHAIN_AVAILABLE, agents, cur, inbox,
                   peerGone, wsClose, nsent>>

\* The agent coroutine returns; the handler builds and writes the response.
\* new_session returns a NewSessionResponse for a session it created, or
\* (typed false) another value.
HandlerReturns(c) ==
    /\ CanFinish(c)
    /\ \E ser \in (IF handler[c].method = "cancel" THEN {TRUE} ELSE BOOLEAN) :
       \E typed \in (IF handler[c].method = "new_session" THEN BOOLEAN ELSE {TRUE}) :
         LET n == nsess[c] + 1
             result == IF typed THEN ResultOf(handler[c], n, ser) ELSE OtherResult(ser)
         IN /\ Send(c, response(result, cur[c].id))
            /\ pc' = [pc EXCEPT ![c] = "loop"]
            /\ IF handler[c].method = "new_session" /\ isinstance_NewSessionResponse(result)
               THEN /\ nsess' = [nsess EXCEPT ![c] = n]
                    /\ session_id' = [session_id EXCEPT ![c] = result.session_id]
               ELSE UNCHANGED <<nsess, session_id>>
            /\ cancelled' = [cancelled EXCEPT ![c] =
                                IF handler[c].method = "cancel" THEN TRUE ELSE @]
    /\ handler' = [handler EXCEPT ![c] = NoHandler]
    /\ UNCHANGED <<DEEPAGENTS_AVAILABLE, LANGCHAIN_AVAILABLE, agents, cur, inbox,
                   peerGone, wsClose, nsent>>

\* HandlerRaises, had the inner except let the exception reach the outer one
\* after writing the error response.
HandlerRaisesFatal(c) ==
    /\ CanFinish(c)
    /\ Send(c, error_response("handler failure", cur[c].method, cur[c].id))
    /\ pc' = [pc EXCEPT ![c] = "cleanup"]
    /\ handler' = [handler EXCEPT ![c] = NoHandler]
    /\ UNCHANGED <<DEEPAGENTS_AVAILABLE, LANGCHAIN_AVAILABLE, agents, session_id, cur,
                   cancelled, nsess, inbox, peerGone, wsClose, nsent>>

\* The agent coroutine raises; the inner except writes the error response.
HandlerRaises(c) ==
    /\ CanFinish(c)
    /\ Send(c, error_response("handler failure", cur[c].method, cur[c].id))
    /\ pc' = [pc EXCEPT ![c] = "loop"]
    /\ handler' = [handler EXCEPT ![c] = NoHandler]
    /\ UNCHANGED <<DEEPAGENTS_AVAILABLE, LANGCHAIN_AVAILABLE, agents, session_id, cur,
                   cancelled, nsess, inbox, peerGone, wsClose, nsent>>

\* Cleanup, had the finally block closed the adapter and left the entry of
\* the connection in the registry.
CleanupKeepsEntry(c) ==
    /\ pc[c] = "cleanup"
    /\ agents' = agents
    /\ LET k == close(c) IN
       /\ closed' = [closed EXCEPT ![c] = k.closed]
       /\ wsClose' = [wsClose EXCEPT ![c] = k.wsClose]
    /\ pc' = [pc EXCEPT ![c] = "done"]
    /\ UNCHANGED <<DEEPAGENTS_AVAILABLE, LANGCHAIN_AVAILABLE, session_id, cur, handler,
                   cancelled, nsess, inbox, recv, nrecv, peerGone, nsent, awaiting>>

\* Cleanup, had the try and its finally block stood inside the while loop.
CleanupInsideLoop(c) ==
    /\ pc[c] = "cleanup"
    /\ agents' = agents \ {c}
    /\ LET k == close(c) IN
       /\ closed' = [closed EXCEPT ![c] = k.closed]
       /\ wsClose' = [wsClose EXCEPT ![c] = k.wsClose]
    /\ pc' = [pc EXCEPT ![c] = "loop"]
    /\ UNCHANGED <<DEEPAGENTS_AVAILABLE, LANGCHAIN_AVAILABLE, session_id, cur, handler,
                   cancelled, nsess, inbox, recv, nrecv, peerGone, nsent, awaiting>>

\* The finally block.
Cleanup(c) ==
    /\ pc[c] = "cleanup"
    /\ agents' = agents \ {c}
    /\ LET k == close(c) IN
       /\ closed' = [closed EXCEPT ![c] = k.closed]
       /\ wsClose' = [wsClose EXCEPT ![c] = k.wsClose]
    /\ pc' = [pc EXCEPT ![c] = "done"]
    /\ UNCHANGED <<DEEPAGENTS_AVAILABLE, LANGCHAIN_AVAILABLE, session_id, cur, handler,
                   cancelled, nsess, inbox, recv, nrecv, peerGone, nsent, awaiting>>

\* ---------------------------------------------------------------- the peer
\* The frames the peer may send as its k-th: ids are the frame numbers.
Frames(k) ==
    {Garbage, Array} \cup
    UNION {{Object(m, i, p) : i \in IdsOf(m, k), p \in ParamsOf(m)} : m \in ClientMethods}


\* A frame that is a call: it carries a method and an id.
IsCall(f) == f.kind = "object" /\ f.method # "None" /\ f.id # 0

\* The peer sends its next frame (websocket.send of the test client).
ClientSend(c) ==
    /\ Open(c) /\ ~peerGone[c]
    /\ nsent[c] < MaxFrames
    /\ Len(inbox[c]) < MaxInbox
    /\ \E f \in Frames(nsent[c] + 1) :
         /\ inbox' = [inbox EXCEPT ![c] = Append(@, f)]
         /\ awaiting' = [awaiting EXCEPT ![c] =
                IF IsCall(f)
                THEN [id |-> f.id, quiet |-> inbox[c] = <<>> /\ pc[c] = "loop"]
                ELSE @]
    /\ nsent' = [nsent EXCEPT ![c] = @ + 1]
    /\ UNCHANGED <<DEEPAGENTS_AVAILABLE, LANGCHAIN_AVAILABLE, agents, pc, closed,
                   session_id, cur, handler, cancelled, nsess, recv, nrecv, peerGone,
                   wsClose>>

\* A cancel notification for the session of the running prompt is in the inbox.
CancelQueued(c) ==
    \E k \in 1..Len(inbox[c]) :
        /\ inbox[c][k].kind = "object" /\ inbox[c][k].method = "cancel"
        /\ SessionArg(inbox[c][k].params, session_id[c]) = handler[c].session_id

\* While its prompt is running the peer sends cancel, without an id, for
\* the session of that prompt.
ClientCancel(c) ==
    /\ pc[c] = "handling" /\ handler[c].method = "prompt"
    /\ ~peerGone[c]
    /\ ~CancelQueued(c)
    /\ inbox' = [inbox EXCEPT ![c] =
                    Append(@, Object("cancel", 0, Params(handler[c].session_id)))]
    /\ UNCHANGED <<DEEPAGENTS_AVAILABLE, LANGCHAIN_AVAILABLE, agents, pc, closed,
                   session_id, cur, handler, cancelled, nsess, recv, nrecv, peerGone,
                   wsClose, nsent, awaiting>>

\* The frames of a peer that sends initialize and prompt calls only, and
\* frames that are no JSON object.
LifecycleFrames(k) ==
    {Garbage, Array} \cup {Object(m, k, Params(0)) : m \in {"initialize", "prompt"}}

\* ClientSend of that peer.
ClientSendLifecycle(c) ==
    /\ Open(c) /\ ~peerGone[c]
    /\ nsent[c] < MaxFrames
    /\ Len(inbox[c]) < MaxInbox
    /\ \E f \in LifecycleFrames(nsent[c] + 1) :
         /\ inbox' = [inbox EXCEPT ![c] = Append(@, f)]
         /\ awaiting' = [awaiting EXCEPT ![c] =
                IF IsCall(f)
                THEN [id |-> f.id, quiet |-> inbox[c] = <<>> /\ pc[c] = "loop"]
                ELSE @]
    /\ nsent' = [nsent EXCEPT ![c] = @ + 1]
    /\ UNCHANGED <<DEEPAGENTS_AVAILABLE, LANGCHAIN_AVAILABLE, agents, pc, closed,
                   session_id, cur, handler, cancelled, nsess, recv, nrecv, peerGone,
                   wsClose>>

\* The frames of the test client after initialize: new_session and prompt
\* calls.
LockstepFrames(k) ==
    {Object(m, k, Params(0)) : m \in {"new_session", "prompt"}}

\* The test client sends its next call once it has received the response
\* to the one before.
ClientSendLockstep(c) ==
    /\ pc[c] = "loop" /\ ~peerGone[c]
    /\ nsent[c] < MaxFrames
    /\ inbox[c] = <<>>
    /\ \E f \in LockstepFrames(nsent[c] + 1) :
         /\ inbox' = [inbox EXCEPT ![c] = Append(@, f)]
         /\ awaiting' = [awaiting EXCEPT ![c] = [id |-> f.id, quiet |-> TRUE]]
    /\ nsent' = [nsent EXCEPT ![c] = @ + 1]
    /\ UNCHANGED <<DEEPAGENTS_AVAILABLE, LANGCHAIN_AVAILABLE, agents, pc, closed,
                   session_id, cur, handler, cancelled, nsess, recv, nrecv, peerGone,
                   wsClose>>

\* The peer disconnects.
ClientDisconnect(c) ==
    /\ Open(c) /\ ~peerGone[c]
    /\ peerGone' = [peerGone EXCEPT ![c] = TRUE]
    /\ UNCHANGED <<DEEPAGENTS_AVAILABLE, LANGCHAIN_AVAILABLE, agents, pc, closed,
                   session_id, cur, handler, cancelled, nsess, inbox, recv, nrecv,
                   wsClose, nsent, awaiting>>

\* ------------------------------------------------------- specifications
Init ==
    /\ DEEPAGENTS_AVAILABLE \in BOOLEAN
    /\ LANGCHAIN_AVAILABLE \in BOOLEAN
    /\ agents = {}
    /\ pc = [c \in Conns |-> "start"]
    /\ closed = [c \in Conns |-> FALSE]
    /\ session_id = [c \in Conns |-> 0]
    /\ cur = [c \in Conns |-> NoMsg]
    /\ handler = [c \in Conns |-> NoHandler]
    /\ cancelled = [c \in Conns |-> FALSE]
    /\ nsess = [c \in Conns |-> 0]
    /\ inbox = [c \in Conns |-> <<>>]
    /\ recv = [c \in Conns |-> NoReply]
    /\ nrecv = [c \in Conns |-> 0]
    /\ peerGone = [c \in Conns |-> FALSE]
    /\ wsClose = [c \in Conns |-> <<>>]
    /\ nsent = [c \in Conns |-> 0]
    /\ awaiting = [c \in Conns |-> NoCall]

\* The steps of the bridge on connection c.
Bridge(c) ==
    \/ Accept(c)
    \/ ReadMessage(c)
    \/ HandlerReturns(c)
    \/ HandlerRaises(c)
    \/ Cleanup(c)

\* The steps of the peer of connection c.
Client(c) ==
    \/ ClientSend(c)
    \/ ClientCancel(c)
    \/ ClientDisconnect(c)

Next == \E c \in MainConns : Bridge(c) \/ Client(c)

\* One connection, any schedule.
Spec == Init /\ [][Next]_vars

\* The event loop resumes a coroutine that can run, an agent coroutine that
\* can finish does, and the peer cancels a prompt it is waiting for.
FairSpec ==
    /\ Spec
    /\ \A c \in MainConns : WF_vars(Bridge(c)) /\ WF_vars(ClientCancel(c))

\* The steps of the bridge and of the peer of LifecycleFrames.
LifecycleNext ==
    \E c \in MainConns :
        Bridge(c) \/ ClientSendLifecycle(c) \/ ClientCancel(c) \/ ClientDisconnect(c)

\* One connection with that peer, under the fairness of FairSpec.
LifecycleSpec ==
    /\ Init /\ [][LifecycleNext]_vars
    /\ \A c \in MainConns : WF_vars(Bridge(c)) /\ WF_vars(ClientCancel(c))


\* The steps of the handlers of all connections, each with a test client.
MultiNext ==
    \E c \in Conns : Bridge(c) \/ ClientSendLockstep(c) \/ ClientDisconnect(c)

\* Several connections, any interleaving.
MultiSpec == Init /\ [][MultiNext]_vars

\* ------------------------------------------- the adapter under any caller
\* The state once StarletteWebSocketAdapter(websocket) is constructed.
AdapterInit ==
    /\ DEEPAGENTS_AVAILABLE = TRUE
    /\ LANGCHAIN_AVAILABLE = TRUE
    /\ agents = MainConns
    /\ pc = [c \in Conns |-> IF c \in MainConns THEN "loop" ELSE "start"]
    /\ closed = [c \in Conns |-> FALSE]
    /\ session_id = [c \in Conns |-> 0]
    /\ cur = [c \in Conns |-> NoMsg]
    /\ handler = [c \in Conns |-> NoHandler]
    /\ cancelled = [c \in Conns |-> FALSE]
    /\ nsess = [c \in Conns |-> 0]
    /\ inbox = [c \in Conns |-> <<>>]
    /\ recv = [c \in Conns |-> NoReply]
    /\ nrecv = [c \in Conns |-> 0]
    /\ peerGone = [c \in Conns |-> FALSE]
    /\ wsClose = [c \in Conns |-> <<>>]
    /\ nsent = [c \in Conns |-> 0]
    /\ awaiting = [c \in Conns |-> NoCall]

\* A call of read_message that returns.
AdapterRead(c) ==
    /\ CanReceive(c)
    /\ LET r == read_message(c) IN
       /\ inbox' = [inbox EXCEPT ![c] = r.inbox]
       /\ closed' = [closed EXCEPT ![c] = r.closed]
    /\ UNCHANGED <<DEEPAGENTS_AVAILABLE, LANGCHAIN_AVAILABLE, agents, pc, session_id,
                   cur, handler, cancelled, nsess, recv, nrecv, peerGone, wsClose,
                   nsent, awaiting>>

\* A call of write_message, with a message json.dumps takes or one it
\* raises on.
AdapterWrite(c) ==
    /\ nrecv[c] < MaxFrames
    /\ \E ser \in BOOLEAN : Send(c, response(ResultOf(NoHandler, 0, ser), nrecv[c] + 1))
    /\ UNCHANGED <<DEEPAGENTS_AVAILABLE, LANGCHAIN_AVAILABLE, agents, pc, session_id,
                   cur, handler, cancelled, nsess, inbox, peerGone, wsClose, nsent>>

\* A call of close.
AdapterClose(c) ==
    /\ LET k == close(c) IN
       /\ closed' = [closed EXCEPT ![c] = k.closed]
       /\ wsClose' = [wsClose EXCEPT ![c] = k.wsClose]
    /\ UNCHANGED <<DEEPAGENTS_AVAILABLE, LANGCHAIN_AVAILABLE, agents, pc, session_id,
                   cur, handler, cancelled, nsess, inbox, recv, nrecv, peerGone,
                   nsent, awaiting>>

\* The calls of the adapter in any order, and the peer.
AdapterNext ==
    \E c \in MainConns :
        \/ AdapterRead(c) \/ AdapterWrite(c) \/ AdapterClose(c)
        \/ ClientSendLifecycle(c) \/ ClientDisconnect(c)

AdapterSpec == AdapterInit /\ [][AdapterNext]_vars

\* ------------------------------------------------------------ the claims
\* The handler of connection c has left its message loop.
Terminated(c) == pc[c] \in {"cleanup", "done"}

\* A message the peer can take for a response: a result, or an error that
\* carries a code and a message.
WellFormed(m) ==
    \/ "result" \in DOMAIN m /\ "error" \notin DOMAIN m
    \/ /\ "error" \in DOMAIN m /\ "result" \notin DOMAIN m
       /\ {"code", "message"} \subseteq DOMAIN m.error

\* This step delivers a message to the peer of c.
Delivers(c) == nrecv'[c] # nrecv[c]

\* This step is read_message taking frame f off the transport of c.
Reads(c, f) ==
    /\ pc[c] = "loop" /\ ~closed[c]
    /\ inbox[c] # <<>> /\ Head(inbox[c]) = f
    /\ inbox'[c] = Tail(inbox[c])

\* C1: every inbound message with a method and an id that the handler takes
\* up is eventually answered with a response for that id, unless the
\* connection terminates first; and a step that writes a response writes one
\* message and ends the handling of the message in hand, so that no message
\* is answered twice.
C1_EveryCallAnswered ==
    /\ \A c \in MainConns : \A i \in 1..MaxFrames :
          (pc[c] = "handling" /\ cur[c].id = i) ~> (recv[c].id = i \/ Terminated(c))
    /\ [][\A c \in MainConns :
            Delivers(c) => (nrecv'[c] = nrecv[c] + 1 /\ pc'[c] = "loop")]_vars

\* C2: whenever the handling of a call with an id ends while the peer is
\* connected, the peer has been sent a well-formed result or error for that
\* id; no path ends with nothing sent.
C2_NeverSilence ==
    [][\A c \in MainConns :
         (pc[c] = "handling" /\ pc'[c] # "handling" /\ cur[c].id # 0 /\ ~peerGone[c])
         => /\ nrecv'[c] = nrecv[c] + 1
            /\ recv'[c].id = cur[c].id
            /\ WellFormed(recv'[c])]_vars

\* C3: every message the handler writes carries the id of the inbound
\* message whose handling produced it and holds exactly one of result and
\* error.
C3_ResponseMatchesCall ==
    [][\A c \in MainConns :
         Delivers(c)
         => /\ nrecv'[c] = nrecv[c] + 1
            /\ recv'[c].id = cur'[c].id
            /\ ("result" \in DOMAIN recv'[c]) # ("error" \in DOMAIN recv'[c])]_vars

\* C3 witness: a result and, before it, another message have been
\* delivered, the result for the call in hand.
C3_Witness ==
    \E c \in MainConns :
        /\ nrecv[c] >= 2
        /\ "result" \in DOMAIN recv[c]
        /\ recv[c].id = cur[c].id /\ cur[c].id >= 2

\* C4 as stated: after the peer has sent a call, the next message it
\* receives is the response to that call.  (Stated for the deliveries that
\* answer a call, so that what refutes it is two calls and nothing else.)
C4_NextMessageAnswersLastCall ==
    [][\A c \in MainConns :
         (Delivers(c) /\ awaiting[c].id # 0 /\ IsCall(cur'[c]))
         => recv'[c].id = awaiting[c].id]_vars

\* C4 amended: responses are delivered in the order their calls were sent
\* (ascending ids), and a call sent while nothing earlier was outstanding is
\* answered by the next message delivered.
C4_ResponsesInOrder ==
    [][\A c \in MainConns :
         Delivers(c)
         => /\ (recv[c].id # 0 /\ recv'[c].id # 0) => recv'[c].id > recv[c].id
            /\ (awaiting[c].id # 0 /\ awaiting[c].quiet)
                   => recv'[c].id = awaiting[c].id]_vars

\* C4 witness: the response to the second or a later call, sent after an
\* earlier message was delivered, has arrived as the next message.
C4_Witness ==
    \E c \in MainConns :
        /\ nrecv[c] >= 2
        /\ recv[c].id = nsent[c] /\ nsent[c] >= 2
        /\ awaiting[c] = NoCall

\* C5: a call with an unknown method name is answered, without any agent
\* coroutine being started, by an error whose code differs from the code of
\* a handler failure, and the connection stays usable.
C5_UnknownMethodCode ==
    [][\A c \in MainConns : \A i \in 1..MaxFrames :
         (Reads(c, Object("bogus", i, Params(0))) /\ ~peerGone[c])
         => /\ Delivers(c)
            /\ "error" \in DOMAIN recv'[c]
            /\ recv'[c].id = i
            /\ recv'[c].error.code # INTERNAL_ERROR
            /\ handler'[c] = NoHandler
            /\ pc'[c] = "loop" /\ ~closed'[c]]_vars

\* C6: when an agent coroutine raises while the peer is connected, an error
\* response for the id of that call is delivered, the adapter stays open,
\* the registry entry stays, and the handler is back at the top of its loop.
C6_HandlerFailureConfined ==
    [][\A c \in MainConns :
         (HandlerRaises(c) /\ ~peerGone[c])
         => /\ nrecv'[c] = nrecv[c] + 1
            /\ "error" \in DOMAIN recv'[c]
            /\ recv'[c].id = cur[c].id
            /\ ~closed'[c]
            /\ c \in agents'
            /\ pc'[c] = "loop"]_vars

\* C6 witness: after the error response of a failed handler the handler has
\* read a later call and dispatched it to the agent.
C6_Witness ==
    \E c \in MainConns :
        /\ "error" \in DOMAIN recv[c]
        /\ recv[c].error.message = "handler failure"
        /\ recv[c].id # 0
        /\ pc[c] = "handling" /\ cur[c].id > recv[c].id

\* C7: no message is ever written in answer to a notification (a message
\* with a method and no id).
C7_NotificationUnanswered ==
    [][\A c \in MainConns :
         Delivers(c) => ~(cur'[c].method # "None" /\ cur'[c].id = 0)]_vars

\* C8: reading a frame that fails to parse leaves the adapter open and the
\* handler in its message loop.
C8_ParseErrorSurvives ==
    [][\A c \in MainConns :
         Reads(c, Garbage) => (~closed'[c] /\ pc'[c] = "loop")]_vars

\* A call with id i waits in the transport of c.
CallQueued(c, i) ==
    \E k \in 1..Len(inbox[c]) : IsCall(inbox[c][k]) /\ inbox[c][k].id = i

\* C9: a call that has arrived while a prompt is running is answered
\* (unless the connection terminates), however long the prompt runs.
C9_NoStarvation ==
    \A c \in MainConns : \A i \in 1..MaxFrames :
        (pc[c] = "handling" /\ handler[c].method = "prompt" /\ CallQueued(c, i))
            ~> (recv[c].id = i \/ Terminated(c))

\* C10: a prompt call for whose session a cancel has arrived while it runs
\* is answered; it is never left pending for ever.
C10_CancelTerminates ==
    \A c \in MainConns : \A i \in 1..MaxFrames :
        (/\ pc[c] = "handling" /\ handler[c].method = "prompt"
         /\ cur[c].id = i /\ CancelQueued(c))
            ~> (recv[c].id = i \/ Terminated(c))

\* A response message (an object with an id and no method) waits in the
\* transport of c.
ResponseQueued(c) ==
    \E k \in 1..Len(inbox[c]) :
        /\ inbox[c][k].kind = "object"
        /\ inbox[c][k].method = "None" /\ inbox[c][k].id # 0

\* C11: what the peer sends in response while a prompt is in flight reaches
\* the agent before the prompt's own response is sent: the response to the
\* prompt is never written while a response of the peer, sent during that
\* prompt, still waits unread in the transport.
C11_CallbackBeforePromptResponse ==
    [][\A c \in MainConns :
         (/\ pc[c] = "handling" /\ handler[c].method = "prompt"
          /\ Delivers(c) /\ recv'[c].id = cur[c].id)
         => ~ResponseQueued(c)]_vars

\* C12: reading a response message (result or error, an id, no method)
\* whose id matches no pending outbound call invokes no agent coroutine,
\* writes nothing to the peer and leaves the connection open.
C12_StaleResponseDiscarded ==
    [][\A c \in MainConns : \A i \in 1..MaxFrames :
         Reads(c, Object("None", i, Params(0)))
         => /\ ~Delivers(c)
            /\ handler'[c] = NoHandler
            /\ pc'[c] = "loop" /\ ~closed'[c]]_vars

\* A prompt for the session of the running prompt waits in the transport.
PromptQueued(c) ==
    \E k \in 1..Len(inbox[c]) :
        /\ inbox[c][k].kind = "object" /\ inbox[c][k].method = "prompt"
        /\ inbox[c][k].params.ok
        /\ SessionArg(inbox[c][k].params, session_id[c]) = handler[c].session_id

\* This step starts the agent's prompt coroutine on connection c.
StartsPrompt(c) ==
    /\ Len(inbox'[c]) < Len(inbox[c])
    /\ pc'[c] = "handling" /\ handler'[c].method = "prompt"

\* C13: a prompt coroutine is started only while no agent coroutine of the
\* connection is active, and while a prompt is active nothing is taken off
\* the transport: a second prompt for the same session stays queued until
\* the first has ended.
C13_PromptSingleFlight ==
    [][\A c \in MainConns :
         /\ StartsPrompt(c) => (pc[c] = "loop" /\ handler[c] = NoHandler)
         /\ (pc[c] = "handling" /\ handler[c].method = "prompt" /\ PromptQueued(c))
                => (PromptQueued(c)' \/ pc'[c] # "handling")]_vars

\* C13 witness: a second prompt for the same session has arrived while the
\* first is running, and is waiting.
C13_Witness ==
    \E c \in MainConns :
        /\ pc[c] = "handling" /\ handler[c].method = "prompt"
        /\ handler[c].session_id # 0
        /\ PromptQueued(c)

\* The methods whose agent coroutine is given a session id.
SessionMethods == {"prompt", "set_session_mode", "cancel"}

\* This step starts an agent coroutine on connection c for the message it
\* takes off the transport.
StartsHandler(c) ==
    /\ pc[c] = "loop" /\ pc'[c] = "handling"
    /\ Len(inbox'[c]) < Len(inbox[c])

\* C14 as stated: the session id an agent coroutine of prompt,
\* set_session_mode or cancel is given is the session_id of the params when
\* the params hold one, and otherwise the id of the session the agent
\* created last (none before the first).
C14_SessionIdFromParamsWhenPresent ==
    [][\A c \in MainConns :
         (StartsHandler(c) /\ handler'[c].method \in SessionMethods)
         => handler'[c].session_id =
                IF cur'[c].params.session_id # 0
                THEN cur'[c].params.session_id ELSE nsess[c]]_vars

\* C14 amended: the session id given is the session_id of the params when
\* the params hold one that is not empty, and otherwise the id of the
\* session the agent created last (none before the first).
C14_SessionIdFromParamsWhenTruthy ==
    [][\A c \in MainConns :
         (StartsHandler(c) /\ handler'[c].method \in SessionMethods)
         => handler'[c].session_id =
                IF cur'[c].params.session_id \notin {0, EmptyString}
                THEN cur'[c].params.session_id ELSE nsess[c]]_vars

\* C14 witness: after two sessions were created a prompt that names the
\* first runs for the first, not for the latest.
C14_Witness ==
    \E c \in MainConns :
        /\ pc[c] = "handling" /\ handler[c].method = "prompt"
        /\ nsess[c] = 2 /\ session_id[c] = 2
        /\ cur[c].params.session_id = 1 /\ handler[c].session_id = 1

\* C15: an agent coroutine of prompt, set_session_mode or cancel runs only
\* on a connection in SessionActive.  A session created by a successful
\* new_session is the later of the two conditions of that state.
C15_SessionActiveBeforeDispatch ==
    \A c \in MainConns :
        (pc[c] = "handling" /\ handler[c].method \in SessionMethods) => nsess[c] > 0

\* C16: when the agent's initialize raises, the step that writes the error
\* response leaves the message loop for the teardown.
C16_FailedInitializeCloses ==
    [][\A c \in MainConns :
         (HandlerRaises(c) /\ handler[c].method = "initialize")
         => pc'[c] \in {"cleanup", "done"}]_vars

\* C17: the step that leaves the teardown ends in Closed; in Closed the
\* connection has no entry in the registry and its adapter is closed; and
\* from Closed on the handler takes nothing off the transport, starts no
\* agent coroutine and writes nothing.  A connection in the teardown
\* reaches Closed: nothing the teardown does waits for the peer or the
\* agent, its step can be taken in every state it is in.
C17_ClosedIsTerminal ==
    /\ [](\A c \in MainConns :
            /\ pc[c] = "done" => (c \notin agents /\ closed[c])
            /\ pc[c] = "cleanup" => ENABLED Cleanup(c))
    /\ [][\A c \in MainConns :
            /\ (pc[c] = "cleanup" /\ pc'[c] # "cleanup") => pc'[c] = "done"
            /\ pc[c] = "done"
                  => /\ pc'[c] = "done"
                     /\ Len(inbox'[c]) >= Len(inbox[c])
                     /\ handler'[c] = NoHandler /\ cur'[c] = cur[c]
                     /\ nrecv'[c] = nrecv[c]]_vars

\* C17 witness: a connection that answered a call is Closed while frames
\* of the peer are still in the transport.
C17_Witness ==
    \E c \in MainConns :
        /\ pc[c] = "done" /\ c \notin agents /\ closed[c]
        /\ nrecv[c] >= 1 /\ inbox[c] # <<>>

\* An agent coroutine that does not return: a prompt that waits for a
\* cancellation while none has been passed to the agent.
HandlerRunsOn(c) == pc[c] = "handling" /\ handler[c].waits /\ ~cancelled[c]

\* C18: when read_message returns None because the peer has disconnected
\* the handler leaves its loop for the teardown, and once the peer has
\* disconnected the connection reaches Closed unless an agent coroutine
\* runs for ever.
C18_EndOfStreamCloses ==
    /\ [][\A c \in MainConns :
            (/\ pc[c] = "loop" /\ ~closed[c] /\ inbox[c] = <<>> /\ peerGone[c]
             /\ pc'[c] # "loop")
            => (pc'[c] = "cleanup" /\ closed'[c])]_vars
    /\ \A c \in MainConns :
          (peerGone[c] /\ Open(c)) ~> (pc[c] = "done" \/ HandlerRunsOn(c))

\* C18 witness: the peer sent initialize, received the response and
\* disconnected; the connection is Closed without websocket.close() having
\* been called, the adapter having been closed by the failed read.
C18_Witness ==
    \E c \in MainConns :
        /\ pc[c] = "done" /\ peerGone[c] /\ inbox[c] = <<>>
        /\ nsent[c] = 1 /\ nrecv[c] = 1
        /\ cur[c].method = "initialize" /\ recv[c].id = cur[c].id
        /\ wsClose[c] = <<>>

\* The params of a prompt that are malformed: no object, or a prompt list
\* with an entry that is no text block.
MalformedParams == {BadParams, BadBlocks}

\* C19: reading a prompt call with malformed params writes an error
\* response for its id whose code is not the code of a handler failure, and
\* starts no agent coroutine.
C19_MalformedParamsRejected ==
    [][\A c \in MainConns : \A i \in 1..MaxFrames : \A p \in MalformedParams :
         (Reads(c, Object("prompt", i, p)) /\ ~peerGone[c])
         => /\ Delivers(c)
            /\ "error" \in DOMAIN recv'[c]
            /\ recv'[c].id = i
            /\ recv'[c].error.code # INTERNAL_ERROR
            /\ handler'[c] = NoHandler /\ pc'[c] = "loop"]_vars

\* C21: over any sequence of read_message, write_message and close calls
\* websocket.close() is called at most once.
C21_CloseAtMostOnce ==
    \A c \in MainConns : Len(wsClose[c]) <= 1

\* C21 witness: close() has closed an adapter that had delivered a message
\* and whose peer has since disconnected; any further close() finds _closed
\* set.
C21_Witness ==
    \E c \in MainConns :
        /\ closed[c] /\ wsClose[c] = <<CLOSE_DEFAULT>>
        /\ nrecv[c] >= 1 /\ peerGone[c]

\* A message write_message may be handed.
Messages == {response(ResultOf(NoHandler, 0, ser), 1) : ser \in BOOLEAN}

\* C22: on a closed adapter read_message returns None at once and takes no
\* frame, write_message sends nothing, and no call reopens the adapter,
\* receives, sends or closes the websocket.
C22_ClosedAdapterInert ==
    /\ [](\A c \in MainConns :
            closed[c] => /\ read_message(c).message = None
                         /\ read_message(c).inbox = inbox[c]
                         /\ \A m \in Messages : write_message(c, m).sent = <<>>
                         /\ ENABLED AdapterRead(c))
    /\ [][\A c \in MainConns :
            closed[c] => /\ closed'[c]
                         /\ Len(inbox'[c]) >= Len(inbox[c])
                         /\ nrecv'[c] = nrecv[c] /\ recv'[c] = recv[c]
                         /\ wsClose'[c] = wsClose[c]]_vars

\* C22 witness: an adapter closed by a failed write while the peer is
\* connected and a frame of the peer waits to be received.
C22_Witness ==
    \E c \in MainConns :
        /\ closed[c] /\ wsClose[c] = <<>>
        /\ ~peerGone[c] /\ inbox[c] # <<>>
        /\ Head(inbox[c]).kind = "object"

\* This step is one in which the handler of c called write_message: an
\* agent coroutine ended, or a frame was read and answered from the inner
\* except without one being started.
WriteAttempted(c) ==
    \/ pc[c] = "handling" /\ pc'[c] = "loop"
    \/ /\ pc[c] = "loop" /\ ~closed[c] /\ pc'[c] = "loop"
       /\ Len(inbox'[c]) < Len(inbox[c])

\* C23: a write_message that fails leaves the adapter closed; a handler at
\* the top of its loop with a closed adapter takes no frame and starts no
\* agent coroutine, its next step is the exit to the teardown; and it
\* reaches the end of its cleanup.
C23_FailedSendTearsDown ==
    /\ [][\A c \in MainConns :
            /\ (WriteAttempted(c) /\ ~Delivers(c)) => closed'[c]
            /\ (closed[c] /\ pc[c] = "loop")
                  => /\ pc'[c] \in {"loop", "cleanup"}
                     /\ handler'[c] = NoHandler /\ cur'[c] = cur[c]
                     /\ Len(inbox'[c]) >= Len(inbox[c])]_vars
    /\ \A c \in MainConns : (closed[c] /\ pc[c] = "loop") ~> (pc[c] = "done")

\* C23 witness: the response to initialize could not be serialized while
\* the peer was connected; nothing was delivered and the handler has gone
\* through its cleanup.
C23_Witness ==
    \E c \in MainConns :
        /\ pc[c] = "done" /\ ~peerGone[c]
        /\ nsent[c] = 1 /\ cur[c].method = "initialize" /\ cur[c].id = 1
        /\ nrecv[c] = 0 /\ wsClose[c] = <<>>

\* C24: the registry entry of a connection is deleted only by the handler
\* that has left its message loop and awaits no agent coroutine;
\* websocket.close() is not called by the adapter of a connection whose
\* entry remains; and a handler in its loop or awaiting an agent coroutine
\* has its entry.
C24_TeardownOrdered ==
    /\ [](\A c \in MainConns :
            /\ pc[c] \in {"loop", "handling"} => c \in agents
            /\ c \notin agents => handler[c] = NoHandler)
    /\ [][\A c \in MainConns :
            /\ (c \in agents /\ c \notin agents')
                  => (pc[c] = "cleanup" /\ handler[c] = NoHandler /\ pc'[c] = "done")
            /\ (c \in agents /\ wsClose'[c] # wsClose[c]) => c \notin agents']_vars

\* C24 witness: a handler that dispatched a call has left its loop with
\* the adapter open; its cleanup has deleted the entry and closed the
\* websocket.
C24_Witness ==
    \E c \in MainConns :
        /\ pc[c] = "done" /\ c \notin agents
        /\ wsClose[c] = <<CLOSE_DEFAULT>>
        /\ cur[c].method \in AgentMethods /\ handler[c] = NoHandler

\* The state of connection c: its handler's locals, its adapter, its
\* agent, its registry entry and its transport.
StateOf(c) ==
    <<pc[c], closed[c], session_id[c], cur[c], handler[c], cancelled[c], nsess[c],
      c \in agents, inbox[c], recv[c], nrecv[c], peerGone[c], wsClose[c], nsent[c]>>

\* C25: the agents of two connections share no mutable object, and a step
\* that changes the state of one connection (a message read or dispatched,
\* a response written, the teardown) leaves the agent, the session id, the
\* registry entry and all other state of every other connection as it was.
C25_ConnectionsIsolated ==
    /\ [](\A c \in agents : \A d \in agents \ {c} :
            CheckpointerOf(c) # CheckpointerOf(d))
    /\ [][\A c \in Conns : \A d \in Conns \ {c} :
            StateOf(c)' # StateOf(c) => StateOf(d)' = StateOf(d)]_vars

\* C26: the registry holds an entry for a connection exactly while its
\* handler is between agents[conn_id] = agent and the end of its finally
\* block; a handler that took an early exit has closed the websocket with
\* code 1011, once, and has read and dispatched nothing.
C26_RegistryInvariant ==
    \A c \in MainConns :
        /\ c \in agents <=> pc[c] \in {"loop", "handling", "cleanup"}
        /\ pc[c] = "returned"
              => /\ wsClose[c] = <<CLOSE_1011>>
                 /\ cur[c] = NoMsg /\ handler[c] = NoHandler /\ nrecv[c] = 0

\* C26 witness: DeepAgents is installed, create_acp_agent has returned
\* None, and the handler has taken the second early exit.
C26_Witness ==
    \E c \in MainConns :
        /\ DEEPAGENTS_AVAILABLE /\ ~LANGCHAIN_AVAILABLE
        /\ pc[c] = "returned" /\ wsClose[c] = <<CLOSE_1011>>
        /\ c \notin agents

\* C27: the session_id of a handler changes only in the step in which the
\* agent's new_session returns a NewSessionResponse: it becomes the id of
\* the session just created, and what that step writes is the result, not
\* an error.
C27_SessionIdFrame ==
    [][\A c \in MainConns :
         session_id'[c] # session_id[c]
         => /\ pc[c] = "handling" /\ handler[c].method = "new_session"
            /\ nsess'[c] = nsess[c] + 1 /\ session_id'[c] = nsess'[c]
            /\ Delivers(c) => /\ "result" \in DOMAIN recv'[c]
                              /\ isinstance_NewSessionResponse(recv'[c].result)]_vars

\* C27 witness: a session was created, a later new_session returned a
\* value that is no NewSessionResponse, and the session id is still that of
\* the first.
C27_Witness ==
    \E c \in MainConns :
        /\ session_id[c] = 1 /\ nsess[c] = 1
        /\ "result" \in DOMAIN recv[c] /\ recv[c].id >= 2
        /\ cur[c].method = "new_session" /\ cur[c].id = recv[c].id
        /\ ~isinstance_NewSessionResponse(recv[c].result)

\* C28: when the handler of a connection that entered the message loop
\* has finished its cleanup, websocket.close() has been called.
C28_WebsocketClosedOnExit ==
    \A c \in MainConns : pc[c] = "done" => wsClose[c] # <<>>

====
